---- MODULE Spec2Model ----
(***************************************************************************)
(* Bank-Root: the handlers of src/controllers (transactions.py first)      *)
(* running on request workers that share one MySQL database (src/db.py).   *)
(*                                                                         *)
(* Money is counted in units of 1/Scale cent.  A Decimal of the handler    *)
(* is any number of units; a value of a DECIMAL(10,2) column is a whole    *)
(* number of cents, Quantize being the rounding of the column.             *)
(*                                                                         *)
(* create_transaction runs in steps other workers can interleave with:     *)
(*   Begin      lines 126-168: the two SELECTs (one InnoDB snapshot), the  *)
(*              checks and the in-memory balance arithmetic on the ORM     *)
(*              objects;                                                   *)
(*   LockRow    line 170, session.commit(): one UPDATE of a changed        *)
(*              balance, which locks its row exclusively;                  *)
(*   InsertRow  line 170: the INSERT of the transaction row starts and     *)
(*              takes its id from the AUTO_INCREMENT counter;              *)
(*   LockParent line 170: one foreign-key check of the INSERT, which       *)
(*              locks the accounts row it names shared;                    *)
(*   Commit     lines 170-172 + 177-178: the COMMIT, or                    *)
(*   CommitFail lines 174-178: a statement or the COMMIT raises            *)
(*              SQLAlchemyError, the session rolls back.                   *)
(* create_account runs in three steps (the start of its INSERT, the unique *)
(* index, the COMMIT), update_account and delete_account in two (up to the *)
(* COMMIT, then the COMMIT and the return); the handlers that only read    *)
(* are one step each.                                                      *)
(***************************************************************************)
EXTENDS Integers, Sequences, FiniteSets, TLC

\* ---------------------------------------------------------------- bounds
NumWorkers == 2
MaxRequests == 2
MaxLoginRequests == 3
MaxAmount == 2
MaxNegAmount == 1
InitialBalance == 1
Scale == 4

\* ------------------------------------------------------------- constants
None == 0

Workers == 1..NumWorkers
Users == {1, 2}
AccountNumbers == {1, 2, 3}

\* c cents as a Decimal: Decimal('0.0c'), the body's amount sent as a string.
Cents(c) == c * Scale

\* The significant bits of a Python float (IEEE 754 double).
Mantissa == 53

\* The number of bits of the natural number q.
RECURSIVE Bits(_)
Bits(q) == IF q = 0 THEN 0 ELSE 1 + Bits(q \div 2)

\* The binary expansion of r / 100 (0 <= r < 100) cut after n more
\* significant bits: the last bit kept, and rem / 100 of that bit's weight
\* as what is cut off. Leading zero bits do not count until the first 1
\* (started).
RECURSIVE FloatTail(_, _, _, _)
FloatTail(r, n, started, last) ==
    IF n = 0 \/ r = 0 THEN [rem |-> r, last |-> last]
    ELSE LET bit == (2 * r) \div 100
             rest == (2 * r) % 100
         IN  IF ~started /\ bit = 0 THEN FloatTail(rest, n, FALSE, 0)
             ELSE FloatTail(rest, n - 1, TRUE, bit)

\* Decimal(c / 100) - Decimal(c) / 100 for the float c / 100, in sign: the
\* float is c / 100 rounded to Mantissa bits, to the nearest, ties to the
\* even one. The float of 0.01 lies above 0.01, that of 0.03 below 0.03,
\* that of 0.25 is exact.
FloatError(c) ==
    LET a == IF c < 0 THEN 0 - c ELSE c
        q == a \div 100
        t == FloatTail(a % 100, Mantissa - Bits(q), q > 0, q % 2)
        e == IF t.rem = 0 THEN 0
             ELSE IF t.rem > 50 \/ (t.rem = 50 /\ t.last = 1) THEN 1
             ELSE 0 - 1
    IN  IF c < 0 THEN 0 - e ELSE e

\* Decimal(data.get('amount')), line 130, of a body whose amount is the
\* JSON number 0.0c: the exact value of the float.
JsonNumber(c) == Cents(c) + FloatError(c)

\* The column type DECIMAL(10,2): the value rounded to whole cents, halves
\* away from zero.
Quantize(x) ==
    IF x >= 0 THEN ((x + Scale \div 2) \div Scale) * Scale
    ELSE 0 - (((0 - x + Scale \div 2) \div Scale) * Scale)

\* float(x) of a column value of two decimals, as the Decimal it stands for.
Float(x) == JsonNumber(x \div Scale)

\* The Decimals line 130 yields: amounts sent as strings of two decimals,
\* positive amounts sent as JSON numbers, and the string '0.005'.
Amounts ==
    {Cents(c) : c \in (0 - MaxNegAmount)..MaxAmount}
        \cup {JsonNumber(c) : c \in 1..MaxAmount}
        \cup {Scale \div 2}
TransactionTypes == {"deposit", "withdrawal", "transfer", "refund"}

\* The accounts table before the first request: account 1 of user 1 and
\* account 2 of user 2; account number 3 resolves to no account.
InitAccounts ==
    [id \in {1, 2} |->
        [user_id |-> id, account_type |-> "Savings", account_number |-> id,
         balance |-> Cents(InitialBalance)]]

\* data.get('description', ''), line 132: the body carries no description.
NoDescription == ""

\* The JSON body of POST /transactions/ plus the JWT identity.
Requests ==
    [user_id : Users,
     from_account_number : AccountNumbers,
     to_account_number : AccountNumbers \cup {None},
     amount : Amounts,
     type : TransactionTypes,
     description : {NoDescription}]

NoRequest ==
    [user_id |-> None, from_account_number |-> None, to_account_number |-> None,
     amount |-> 0, type |-> "none", description |-> NoDescription]

NoResponse == [status |-> 0, body |-> "none"]

\* The thread has no session: close_session removed it from the registry.
NoSession == [open |-> FALSE, failed |-> FALSE, handler |-> "none"]

\* The thread's session after a handler returned without close_session from
\* a session.commit() whose flush raised: still open, its transaction
\* rolled back and inactive until session.rollback() or session.close().
FailedSession == [open |-> TRUE, failed |-> TRUE, handler |-> "none"]

\* The thread's session after a handler raised between its first SELECT and
\* close_session: still open and usable, its REPEATABLE READ transaction
\* still reading the tables as they were at that SELECT.
LeftOpenSession(accts, ldgr) ==
    [open |-> TRUE, failed |-> FALSE, handler |-> "none",
     accounts |-> accts, ledger |-> ldgr]

VARIABLES
    accounts,   \* committed rows of table accounts: id -> row
    ledger,     \* committed rows of table transactions, in COMMIT order
    session,    \* per worker: the thread-scoped SessionLocal() and its objects
    req,        \* per worker: the last request that passed line 139
    resp,       \* per worker: the response returned, NoResponse while running
    nreq,       \* per worker: number of requests it has received
    next_account_id,      \* AUTO_INCREMENT of table accounts
    next_transaction_id   \* AUTO_INCREMENT of table transactions

vars == <<accounts, ledger, session, req, resp, nreq, next_account_id,
          next_transaction_id>>

\* Requests received by all workers together.
RECURSIVE SumRequests(_, _)
SumRequests(counts, ws) ==
    IF ws = {} THEN 0
    ELSE LET w == CHOOSE x \in ws : TRUE
         IN  counts[w] + SumRequests(counts, ws \ {w})

TotalRequests == SumRequests(nreq, Workers)

\* ----------------------------------------------------------- pure helpers

\* Mutant: the owner filter is dropped from the query.
validate_account_by_number_only(user_id, account_number, accts) ==
    LET hits == {id \in DOMAIN accts : accts[id].account_number = account_number}
    IN  IF hits = {} THEN None ELSE CHOOSE id \in hits : \A o \in hits : id <= o

\* session.query(Account).filter_by(account_number=.., user_id=..).first()
validate_account_owner_by_number(user_id, account_number, accts) ==
    LET hits == {id \in DOMAIN accts :
                    /\ accts[id].account_number = account_number
                    /\ accts[id].user_id = user_id}
    IN  IF hits = {} THEN None ELSE CHOOSE id \in hits : \A o \in hits : id <= o

\* session.query(Account).filter_by(account_number=..).first()
\*     if to_account_number else None
LookupToAccount(to_account_number, accts) ==
    LET hits == {id \in DOMAIN accts : accts[id].account_number = to_account_number}
    IN  IF to_account_number = None \/ hits = {} THEN None
        ELSE CHOOSE id \in hits : \A o \in hits : id <= o

\* The identity map after the two queries: one object per loaded row, each
\* with the balance it was loaded with and its current in-memory balance.
LoadObjects(from_id, to_id, accts) ==
    [id \in ({from_id, to_id} \ {None}) |->
        [loaded |-> accts[id].balance, balance |-> accts[id].balance]]

AddBalance(objs, id, delta) ==
    [objs EXCEPT ![id].balance = @ + delta]

\* Mutant: the transfer branch does not test to_account.
ApplyOk_NoTargetCheck(objs, from_id, to_id, amount, type) ==
    CASE type = "deposit" -> TRUE
      [] type = "withdrawal" -> objs[from_id].balance >= amount
      [] type = "transfer" -> objs[from_id].balance >= amount
      [] OTHER -> FALSE

\* The type branch, lines 144-159: the objects after the in-memory
\* arithmetic, or the error response.
ApplyOk(objs, from_id, to_id, amount, type) ==
    CASE type = "deposit" -> TRUE
      [] type = "withdrawal" -> objs[from_id].balance >= amount
      [] type = "transfer" -> objs[from_id].balance >= amount /\ to_id # None
      [] OTHER -> FALSE

ApplyError(type) ==
    CASE type = "withdrawal" -> [status |-> 400, body |-> "Insufficient funds"]
      [] type = "transfer" ->
            [status |-> 400, body |-> "Insufficient funds or invalid target account"]
      [] OTHER -> [status |-> 400, body |-> "Invalid transaction type"]

\* The assignments of the type branch, lines 146, 150 and 154-155.
ApplyObjects(objs, from_id, to_id, amount, type) ==
    CASE type = "deposit" -> AddBalance(objs, from_id, amount)
      [] type = "withdrawal" -> AddBalance(objs, from_id, 0 - amount)
      [] type = "transfer" ->
            AddBalance(AddBalance(objs, from_id, 0 - amount), to_id, amount)
      [] OTHER -> objs

\* Mutant: the flush stops after the UPDATE of the first loaded row.
FlushAccounts_FirstRowOnly(accts, objs) ==
    LET first == CHOOSE id \in DOMAIN objs : \A o \in DOMAIN objs : id <= o
    IN  [id \in DOMAIN accts |->
            IF id = first /\ objs[id].balance # objs[id].loaded
            THEN [accts[id] EXCEPT !.balance = Quantize(objs[id].balance)]
            ELSE accts[id]]

\* The unit of work's UPDATEs: a row is written when its object's balance
\* differs from the loaded one, and it is written with the object's value,
\* which the column rounds.
FlushAccounts(accts, objs) ==
    [id \in DOMAIN accts |->
        IF id \in DOMAIN objs /\ objs[id].balance # objs[id].loaded
        THEN [accts[id] EXCEPT !.balance = Quantize(objs[id].balance)]
        ELSE accts[id]]

\* Transaction(from_account_id=.., to_account_id=.., amount=.., type=..)
NewTransaction(id, from_id, to_id, amount, type, description) ==
    [id |-> id, from_account_id |-> from_id, to_account_id |-> to_id,
     amount |-> Quantize(amount), type |-> type, description |-> description]

\* ------------------------------------------------------------------ Init
Init ==
    /\ accounts = InitAccounts
    /\ ledger = << >>
    /\ session = [w \in Workers |-> NoSession]
    /\ req = [w \in Workers |-> NoRequest]
    /\ resp = [w \in Workers |-> NoResponse]
    /\ nreq = [w \in Workers |-> 0]
    /\ next_account_id = 3
    /\ next_transaction_id = 1

\* ------------------------------------------------- the thread's session

\* A handler of worker w is between its first statement and its return.
Running(w) == session[w].open /\ session[w].handler # "none"

\* SessionLocal() gives worker w a session its handler can query with: a
\* new one, or the one an earlier handler of the thread left open.
Usable(w) == ~session[w].open \/ (session[w].handler = "none" /\ ~session[w].failed)

\* SessionLocal() gives worker w the session an earlier handler left failed.
Failed(w) == session[w].open /\ session[w].handler = "none" /\ session[w].failed

\* The rows a SELECT of worker w reads: the committed ones, or those of the
\* snapshot of the transaction the thread's session is still in.
ViewAccounts(w) ==
    IF session[w].open /\ session[w].handler = "none" /\ ~session[w].failed
    THEN session[w].accounts ELSE accounts

ViewLedger(w) ==
    IF session[w].open /\ session[w].handler = "none" /\ ~session[w].failed
    THEN session[w].ledger ELSE ledger

\* create_transaction of worker w is between line 159 and its return.
InCommit(w) == session[w].open /\ session[w].handler = "create_transaction"

\* ------------------------------------------ row locks of session.commit()

\* The rows the flush UPDATEs: the loaded objects whose balance changed.
DirtyRows(w) ==
    {id \in DOMAIN session[w].objects :
        session[w].objects[id].balance # session[w].objects[id].loaded}

\* The accounts rows the INSERT's foreign keys name.
ReferencedRows(w) == {session[w].from_id, session[w].to_id} \ {None}

\* The accounts rows worker w holds exclusively (its UPDATEs).
XHeld(w) == IF InCommit(w) THEN session[w].locks ELSE {}

\* The accounts rows worker w holds shared: the parents the foreign-key
\* checks of its INSERT have locked.
SHeld(w) == IF InCommit(w) THEN session[w].parents ELSE {}

\* Worker w can lock the row exclusively / shared without waiting.
XFree(w, row) == \A v \in Workers \ {w} : row \notin XHeld(v) \cup SHeld(v)
SFree(w, row) == \A v \in Workers \ {w} : row \notin XHeld(v)

\* --------------------------------------------------------------- actions

\* create_transaction, lines 126-139: the source is not an account of the
\* caller; 403, session closed.
BeginUnauthorized(w, r) ==
    /\ Usable(w)
    /\ validate_account_owner_by_number(
            r.user_id, r.from_account_number, ViewAccounts(w)) = None
    /\ session' = [session EXCEPT ![w] = NoSession]
    /\ req' = [req EXCEPT ![w] = NoRequest]
    /\ resp' = [resp EXCEPT ![w] =
                    [status |-> 403, body |-> "Unauthorized access to the account"]]
    /\ nreq' = [nreq EXCEPT ![w] = @ + 1]
    /\ UNCHANGED <<accounts, ledger, next_account_id, next_transaction_id>>

\* create_transaction, line 130: the body's amount is missing or is no
\* number ('abc'); Decimal() raises before SessionLocal() and before the
\* ownership check, whoever the caller is; 500, the session is not touched.
BeginAmountRaises(w) ==
    /\ ~Running(w)
    /\ req' = [req EXCEPT ![w] = NoRequest]
    /\ resp' = [resp EXCEPT ![w] = [status |-> 500, body |-> "InvalidOperation"]]
    /\ nreq' = [nreq EXCEPT ![w] = @ + 1]
    /\ UNCHANGED <<accounts, ledger, session, next_account_id, next_transaction_id>>

\* create_transaction with the amount 'NaN', which line 130 accepts, by the
\* owner of the source. Withdrawal and transfer: the comparison of line 148
\* / 153 raises InvalidOperation, which `except SQLAlchemyError` does not
\* catch; the finally closes the session. Deposit: the balance becomes NaN,
\* the UPDATE of the flush is refused, lines 174-178. 500 in each case, no
\* row changed. (Other types answer 400 as for any amount.)
BeginNotANumber(w, r) ==
    /\ Usable(w)
    /\ validate_account_owner_by_number(
            r.user_id, r.from_account_number, ViewAccounts(w)) # None
    /\ r.type \in {"deposit", "withdrawal", "transfer"}
    /\ session' = [session EXCEPT ![w] = NoSession]
    /\ req' = [req EXCEPT ![w] = NoRequest]
    /\ resp' = [resp EXCEPT ![w] =
                    [status |-> 500,
                     body |-> IF r.type = "deposit" THEN "SQLAlchemyError"
                              ELSE "InvalidOperation"]]
    /\ nreq' = [nreq EXCEPT ![w] = @ + 1]
    /\ UNCHANGED <<accounts, ledger, next_account_id, next_transaction_id>>

\* create_transaction, lines 126-159, one of the 400 exits; session closed.
BeginRejected(w, r) ==
    /\ Usable(w)
    /\ LET from_id == validate_account_owner_by_number(
                          r.user_id, r.from_account_number, ViewAccounts(w))
           to_id == LookupToAccount(r.to_account_number, ViewAccounts(w))
       IN  /\ from_id # None
           /\ ~ApplyOk(LoadObjects(from_id, to_id, ViewAccounts(w)),
                       from_id, to_id, r.amount, r.type)
    /\ session' = [session EXCEPT ![w] = NoSession]
    /\ req' = [req EXCEPT ![w] = r]
    /\ resp' = [resp EXCEPT ![w] = ApplyError(r.type)]
    /\ nreq' = [nreq EXCEPT ![w] = @ + 1]
    /\ UNCHANGED <<accounts, ledger, next_account_id, next_transaction_id>>

\* create_transaction, lines 126-159, falling through to line 161: the
\* balances are changed on the session's objects only.
BeginApplied(w, r) ==
    /\ Usable(w)
    /\ LET from_id == validate_account_owner_by_number(
                          r.user_id, r.from_account_number, ViewAccounts(w))
           to_id == LookupToAccount(r.to_account_number, ViewAccounts(w))
           objs == LoadObjects(from_id, to_id, ViewAccounts(w))
       IN  /\ from_id # None
           /\ ApplyOk(objs, from_id, to_id, r.amount, r.type)
           /\ session' = [session EXCEPT ![w] =
                  [open |-> TRUE, failed |-> FALSE,
                   handler |-> "create_transaction",
                   from_id |-> from_id, to_id |-> to_id,
                   objects |-> ApplyObjects(objs, from_id, to_id, r.amount, r.type),
                   locks |-> {}, id |-> None, parents |-> {}]]
    /\ req' = [req EXCEPT ![w] = r]
    /\ resp' = [resp EXCEPT ![w] = NoResponse]
    /\ nreq' = [nreq EXCEPT ![w] = @ + 1]
    /\ UNCHANGED <<accounts, ledger, next_account_id, next_transaction_id>>

\* The row of the next UPDATE of w's flush: the written row of least
\* primary key that is not yet locked, None when every UPDATE is done.
NextLock(w) ==
    LET pending == DirtyRows(w) \ session[w].locks
    IN  IF pending = {} THEN None
        ELSE CHOOSE id \in pending : \A o \in pending : id <= o

\* The row of the next foreign-key check of w's INSERT: from_account_id
\* before to_account_id (models.py lines 44-45), None when both are done.
\* A row the transaction holds exclusively needs no further lock.
NextParent(w) ==
    LET done == session[w].parents \cup session[w].locks
    IN  IF session[w].from_id \notin done THEN session[w].from_id
        ELSE IF session[w].to_id \notin done \cup {None} THEN session[w].to_id
        ELSE None

\* session.commit(), line 170: one UPDATE of the flush. It waits while
\* another transaction holds the row.
LockRow(w) ==
    /\ InCommit(w) /\ session[w].id = None
    /\ NextLock(w) # None
    /\ NextLock(w) \in DOMAIN accounts
    /\ XFree(w, NextLock(w))
    /\ session' = [session EXCEPT ![w].locks = @ \cup {NextLock(w)}]
    /\ UNCHANGED <<accounts, ledger, req, resp, nreq, next_account_id,
                   next_transaction_id>>

\* session.commit(), line 170: the INSERT of the flush starts, once every
\* UPDATE is done, and takes the next AUTO_INCREMENT value as the row's id.
InsertRow(w) ==
    /\ InCommit(w) /\ session[w].id = None
    /\ NextLock(w) = None
    /\ session' = [session EXCEPT ![w].id = next_transaction_id]
    /\ next_transaction_id' = next_transaction_id + 1
    /\ UNCHANGED <<accounts, ledger, req, resp, nreq, next_account_id>>

\* session.commit(), line 170: one foreign-key check of the INSERT. It
\* needs the accounts row to exist, locks it shared and waits while another
\* transaction holds it exclusively.
LockParent(w) ==
    /\ InCommit(w) /\ session[w].id # None
    /\ NextParent(w) # None
    /\ NextParent(w) \in DOMAIN accounts
    /\ SFree(w, NextParent(w))
    /\ session' = [session EXCEPT ![w].parents = @ \cup {NextParent(w)}]
    /\ UNCHANGED <<accounts, ledger, req, resp, nreq, next_account_id,
                   next_transaction_id>>

\* Every statement of w's flush has run: the transaction can COMMIT.
Flushed(w) ==
    IF InCommit(w) THEN session[w].id # None /\ NextParent(w) = None ELSE FALSE

\* Mutant: the success path returns without close_session (no finally).
Commit_SessionLeft(w) ==
    /\ Flushed(w)
    /\ resp[w] = NoResponse
    /\ accounts' = FlushAccounts(accounts, session[w].objects)
    /\ ledger' = Append(ledger,
                    NewTransaction(session[w].id, session[w].from_id,
                                   session[w].to_id, req[w].amount, req[w].type,
                                   req[w].description))
    /\ session' = session
    /\ resp' = [resp EXCEPT ![w] =
                    [status |-> 201, body |-> "Transaction completed successfully"]]
    /\ UNCHANGED <<req, nreq, next_account_id, next_transaction_id>>

\* create_transaction, lines 170-172 and 177-178: the COMMIT of
\* session.commit() makes the flushed rows visible and releases the locks;
\* 201, session closed.
Commit(w) ==
    /\ Flushed(w)
    /\ accounts' = FlushAccounts(accounts, session[w].objects)
    /\ ledger' = Append(ledger,
                    NewTransaction(session[w].id, session[w].from_id,
                                   session[w].to_id, req[w].amount, req[w].type,
                                   req[w].description))
    /\ session' = [session EXCEPT ![w] = NoSession]
    /\ resp' = [resp EXCEPT ![w] =
                    [status |-> 201, body |-> "Transaction completed successfully"]]
    /\ UNCHANGED <<req, nreq, next_account_id, next_transaction_id>>

\* Mutant: the error path lacks the rollback, the balance UPDATEs stay.
CommitFail_NoRollback(w) ==
    /\ InCommit(w)
    /\ accounts' = FlushAccounts(accounts, session[w].objects)
    /\ ledger' = ledger
    /\ session' = [session EXCEPT ![w] = NoSession]
    /\ resp' = [resp EXCEPT ![w] = [status |-> 500, body |-> "SQLAlchemyError"]]
    /\ UNCHANGED <<req, nreq, next_account_id, next_transaction_id>>

\* create_transaction, lines 174-178: a statement of the flush or the
\* COMMIT raises SQLAlchemyError; rollback, 500. The rollback undoes the
\* statements and releases their locks; an AUTO_INCREMENT value the INSERT
\* took stays used.
CommitFail(w) ==
    /\ InCommit(w)
    /\ accounts' = accounts
    /\ ledger' = ledger
    /\ session' = [session EXCEPT ![w] = NoSession]
    /\ resp' = [resp EXCEPT ![w] = [status |-> 500, body |-> "SQLAlchemyError"]]
    /\ UNCHANGED <<req, nreq, next_account_id, next_transaction_id>>

\* A request arrives at an idle worker (at most MaxRequests arrive in all).
Receive ==
    /\ TotalRequests < MaxRequests
    /\ \E w \in Workers :
          \/ BeginAmountRaises(w)
          \/ \E r \in Requests :
                \/ BeginNotANumber(w, r)
                \/ BeginUnauthorized(w, r)
                \/ BeginRejected(w, r)
                \/ BeginApplied(w, r)

\* The next statement of w's flush waits for a lock worker v holds.
WaitsFor(w, v) ==
    IF ~InCommit(w) THEN FALSE
    ELSE IF session[w].id = None
    THEN NextLock(w) # None /\ NextLock(w) \in XHeld(v) \cup SHeld(v)
    ELSE NextParent(w) # None /\ NextParent(w) \in XHeld(v)

\* InnoDB's deadlock detection: of two transactions that wait for each
\* other one is rolled back, its statement raises, lines 174-178.
DeadlockVictim(w) ==
    /\ \E v \in Workers \ {w} : WaitsFor(w, v) /\ WaitsFor(v, w)
    /\ CommitFail(w)

Next ==
    \/ Receive
    \/ \E w \in Workers : LockRow(w)
    \/ \E w \in Workers : InsertRow(w)
    \/ \E w \in Workers : LockParent(w)
    \/ \E w \in Workers : Commit(w)
    \/ \E w \in Workers : CommitFail(w)
    \/ \E w \in Workers : DeadlockVictim(w)

Spec == Init /\ [][Next]_vars

\* The worker thread runs on: a statement whose lock is free is executed,
\* a flushed transaction is committed, and a deadlock is detected.
SpecLive ==
    Spec /\ \A w \in Workers :
        /\ WF_vars(LockRow(w))
        /\ WF_vars(InsertRow(w))
        /\ WF_vars(LockParent(w))
        /\ WF_vars(Commit(w))
        /\ WF_vars(DeadlockVictim(w))

\* ------------------------------------------ account handlers (accounts.py)

AccountIds == {1, 2, 3}

\* The balances a body of create_account or update_account carries: JSON
\* numbers of two decimals, as floats.
Balances == {JsonNumber(c) : c \in (0 - MaxNegAmount)..MaxAmount}
AccountTypes == {"Savings", "Checking"}
NoType == ""

\* session.query(Account).filter_by(id=account_id, user_id=user_id).first()
OwnedAccount(user_id, account_id, accts) ==
    IF account_id \in DOMAIN accts /\ accts[account_id].user_id = user_id
    THEN account_id ELSE None

\* The table accounts with the row of a new account.
InsertAccount(accts, id, row) ==
    [a \in DOMAIN accts \cup {id} |-> IF a = id THEN row ELSE accts[a]]

\* The table accounts without row id (DELETE ... WHERE id = ..., which
\* matches no row when the row is gone already).
RemoveAccount(accts, id) ==
    [a \in DOMAIN accts \ {id} |-> accts[a]]

\* The ids of the transactions rows that name account id.
ReferencingRows(ldgr, id) ==
    {ldgr[i].id : i \in {j \in 1..Len(ldgr) :
        ldgr[j].from_account_id = id \/ ldgr[j].to_account_id = id}}

\* session.delete(account) with the relationships transactions_from and
\* transactions_to of models.py lines 35-36, which declare no cascade: the
\* flush sets from_account_id / to_account_id of the account's transactions
\* to NULL before it deletes the row. The account's transactions are the
\* rows the session's transaction reads (children).
NullifyReferences(ldgr, id, children) ==
    [i \in 1..Len(ldgr) |->
        IF ldgr[i].id \in children
        THEN [ldgr[i] EXCEPT
                !.from_account_id = IF @ = id THEN None ELSE @,
                !.to_account_id = IF @ = id THEN None ELSE @]
        ELSE ldgr[i]]

\* Worker w's account handler returns the answer after close_session.
AccountResponse(w, status, body) ==
    /\ session' = [session EXCEPT ![w] = NoSession]
    /\ resp' = [resp EXCEPT ![w] = [status |-> status, body |-> body]]

\* Worker w's account handler raises out of session.commit(): nothing
\* catches the exception, close_session is not reached, the thread's
\* session stays open with its transaction failed; 500.
AccountRaises(w, error) ==
    /\ session' = [session EXCEPT ![w] = FailedSession]
    /\ resp' = [resp EXCEPT ![w] = [status |-> 500, body |-> error]]

\* A request is handed to worker w, which starts on it.
Accept(w) ==
    /\ req' = [req EXCEPT ![w] = NoRequest]
    /\ nreq' = [nreq EXCEPT ![w] = @ + 1]

InCreate(w) == session[w].open /\ session[w].handler = "create_account"
InUpdate(w) == session[w].open /\ session[w].handler = "update_account"
InDelete(w) == session[w].open /\ session[w].handler = "delete_account"

\* The account numbers other workers' uncommitted INSERTs have entered in
\* the unique index of account_number.
PendingNumbers(w) ==
    {session[v].row.account_number :
        v \in {x \in Workers \ {w} : InCreate(x) /\ session[x].inserted}}

\* create_account, lines 181-196: SessionLocal(), session.add and the start
\* of the INSERT of session.commit(), which takes the next AUTO_INCREMENT
\* value as the row's id.
CreateAccountInsert(w, user_id, account_type, account_number, balance) ==
    /\ Usable(w)
    /\ session' = [session EXCEPT ![w] =
            [open |-> TRUE, failed |-> FALSE, handler |-> "create_account",
             id |-> next_account_id, inserted |-> FALSE,
             row |-> [user_id |-> user_id, account_type |-> account_type,
                      account_number |-> account_number,
                      balance |-> Quantize(balance)]]]
    /\ next_account_id' = next_account_id + 1
    /\ resp' = [resp EXCEPT ![w] = NoResponse]
    /\ Accept(w)
    /\ UNCHANGED <<accounts, ledger, next_transaction_id>>

\* create_account, line 196: the INSERT passes the unique index of
\* account_number (models.py line 28) when no committed row has the number;
\* it waits while an uncommitted INSERT of another transaction holds it.
CreateAccountUnique(w) ==
    /\ InCreate(w) /\ ~session[w].inserted
    /\ \A id \in DOMAIN accounts :
          accounts[id].account_number # session[w].row.account_number
    /\ session[w].row.account_number \notin PendingNumbers(w)
    /\ session' = [session EXCEPT ![w].inserted = TRUE]
    /\ UNCHANGED <<accounts, ledger, req, resp, nreq, next_account_id,
                   next_transaction_id>>

\* create_account, lines 196-199: the COMMIT, close_session, 201.
CreateAccount(w) ==
    /\ InCreate(w) /\ session[w].inserted
    /\ accounts' = InsertAccount(accounts, session[w].id, session[w].row)
    /\ AccountResponse(w, 201, "Account created successfully")
    /\ UNCHANGED <<ledger, req, nreq, next_account_id, next_transaction_id>>

\* create_account, line 196: a committed row has the account number, the
\* unique index rejects the INSERT and session.commit() raises; the
\* AUTO_INCREMENT value the INSERT took stays used.
CreateAccountDuplicate(w) ==
    /\ InCreate(w) /\ ~session[w].inserted
    /\ \E id \in DOMAIN accounts :
          accounts[id].account_number = session[w].row.account_number
    /\ AccountRaises(w, "IntegrityError")
    /\ UNCHANGED <<accounts, ledger, req, nreq, next_account_id,
                   next_transaction_id>>

\* update_account, lines 232-242: no account with this id for this user.
UpdateAccountNotFound(w, user_id, account_id) ==
    /\ Usable(w)
    /\ OwnedAccount(user_id, account_id, ViewAccounts(w)) = None
    /\ AccountResponse(w, 404, "Account not found")
    /\ Accept(w)
    /\ UNCHANGED <<accounts, ledger, next_account_id, next_transaction_id>>

\* update_account, lines 232-247: the SELECT and the assignments to the
\* loaded object. An attribute is written by the flush when its new value
\* differs from the loaded one; NoType stands for a body without
\* account_type.
UpdateAccountBegin(w, user_id, account_id, account_type, has_balance, balance) ==
    /\ Usable(w)
    /\ OwnedAccount(user_id, account_id, ViewAccounts(w)) # None
    /\ LET loaded == ViewAccounts(w)[account_id]
       IN  session' = [session EXCEPT ![w] =
              [open |-> TRUE, failed |-> FALSE, handler |-> "update_account",
               account_id |-> account_id,
               account_type |-> IF account_type # loaded.account_type
                                THEN account_type ELSE NoType,
               has_balance |-> has_balance /\ balance # loaded.balance,
               balance |-> IF has_balance /\ balance # loaded.balance
                           THEN balance ELSE 0]]
    /\ resp' = [resp EXCEPT ![w] = NoResponse]
    /\ Accept(w)
    /\ UNCHANGED <<accounts, ledger, next_account_id, next_transaction_id>>

\* The flush of update_account has an UPDATE to emit.
Modified(w) == session[w].account_type # NoType \/ session[w].has_balance

\* update_account, lines 249-252: UPDATE of the changed attributes (which
\* waits while another transaction holds the row), COMMIT, 200.
UpdateAccount(w) ==
    /\ InUpdate(w)
    /\ IF Modified(w)
       THEN /\ session[w].account_id \in DOMAIN accounts
            /\ XFree(w, session[w].account_id)
            /\ accounts' = [accounts EXCEPT
                  ![session[w].account_id].account_type =
                        IF session[w].account_type # NoType
                        THEN session[w].account_type ELSE @,
                  ![session[w].account_id].balance =
                        IF session[w].has_balance
                        THEN Quantize(session[w].balance) ELSE @]
       ELSE accounts' = accounts
    /\ AccountResponse(w, 200, "Account updated successfully")
    /\ UNCHANGED <<ledger, req, nreq, next_account_id, next_transaction_id>>

\* update_account, line 249, after another request deleted the row: the
\* UPDATE matches no row, the flush raises StaleDataError.
UpdateAccountStale(w) ==
    /\ InUpdate(w)
    /\ Modified(w)
    /\ session[w].account_id \notin DOMAIN accounts
    /\ AccountRaises(w, "StaleDataError")
    /\ UNCHANGED <<accounts, ledger, req, nreq, next_account_id,
                   next_transaction_id>>

\* delete_account, lines 274-281: no account with this id for this user.
DeleteAccountNotFound(w, user_id, account_id) ==
    /\ Usable(w)
    /\ OwnedAccount(user_id, account_id, ViewAccounts(w)) = None
    /\ AccountResponse(w, 404, "Account not found")
    /\ Accept(w)
    /\ UNCHANGED <<accounts, ledger, next_account_id, next_transaction_id>>

\* delete_account, lines 274-283: the SELECT, which starts the session's
\* transaction; the account's transactions are those this transaction
\* reads.
DeleteAccountBegin(w, user_id, account_id) ==
    /\ Usable(w)
    /\ OwnedAccount(user_id, account_id, ViewAccounts(w)) # None
    /\ session' = [session EXCEPT ![w] =
            [open |-> TRUE, failed |-> FALSE, handler |-> "delete_account",
             account_id |-> account_id,
             children |-> ReferencingRows(ViewLedger(w), account_id)]]
    /\ resp' = [resp EXCEPT ![w] = NoResponse]
    /\ Accept(w)
    /\ UNCHANGED <<accounts, ledger, next_account_id, next_transaction_id>>

\* A transactions row committed after the SELECT of w's delete_account
\* names the account.
NewlyReferenced(w) ==
    /\ session[w].account_id \in DOMAIN accounts
    /\ ReferencingRows(ledger, session[w].account_id) \ session[w].children # {}

\* delete_account, lines 284-287: the flush sets the references of the
\* account's transactions to NULL and DELETEs the row (waiting while
\* another transaction holds it), COMMIT, 200.
DeleteAccount(w) ==
    /\ InDelete(w)
    /\ ~NewlyReferenced(w)
    /\ XFree(w, session[w].account_id)
    /\ accounts' = RemoveAccount(accounts, session[w].account_id)
    /\ ledger' = NullifyReferences(ledger, session[w].account_id,
                                   session[w].children)
    /\ AccountResponse(w, 200, "Account deleted successfully")
    /\ UNCHANGED <<req, nreq, next_account_id, next_transaction_id>>

\* delete_account, line 284, after another request committed a
\* transaction of the account: the row is not among those the flush sets
\* to NULL, the foreign key refuses the DELETE, the flush raises
\* IntegrityError and the transaction is rolled back.
DeleteAccountReferenced(w) ==
    /\ InDelete(w)
    /\ NewlyReferenced(w)
    /\ XFree(w, session[w].account_id)
    /\ AccountRaises(w, "IntegrityError")
    /\ UNCHANGED <<accounts, ledger, req, nreq, next_account_id,
                   next_transaction_id>>

\* session.query(User).filter_by(id=user_id).first().username: the value
\* of column username of the caller's row (the table users is not part of
\* the state).
Username(user_id) == <<"username", user_id>>

\* account_data, lines 133-142 (and 73-82): the JSON of one account in the
\* answers of get_account and get_all_accounts, the balance as a float and
\* the caller as owner.
SerializeAccount(user_id, id, row) ==
    [id |-> id, account_type |-> row.account_type,
     account_number |-> row.account_number, balance |-> Float(row.balance),
     owner |-> [id |-> user_id, username |-> Username(user_id)]]

\* get_all_accounts, lines 36-87: the accounts of the caller; session
\* closed.
GetAllAccounts(w, user_id) ==
    /\ Usable(w)
    /\ session' = [session EXCEPT ![w] = NoSession]
    /\ resp' = [resp EXCEPT ![w] =
            [status |-> 200, body |-> "accounts",
             accounts |-> {SerializeAccount(user_id, id, ViewAccounts(w)[id]) :
                            id \in {a \in DOMAIN ViewAccounts(w) :
                                      ViewAccounts(w)[a].user_id = user_id}}]]
    /\ Accept(w)
    /\ UNCHANGED <<accounts, ledger, next_account_id, next_transaction_id>>

\* get_account, lines 91-148: the account when it is one of the caller's,
\* 404 otherwise; session closed.
GetAccount(w, user_id, account_id) ==
    /\ Usable(w)
    /\ session' = [session EXCEPT ![w] = NoSession]
    /\ resp' = [resp EXCEPT ![w] =
            IF OwnedAccount(user_id, account_id, ViewAccounts(w)) # None
            THEN [status |-> 200, body |-> "account",
                  accounts |-> {SerializeAccount(user_id, account_id,
                                    ViewAccounts(w)[account_id])}]
            ELSE [status |-> 404, body |-> "Account not found"]]
    /\ Accept(w)
    /\ UNCHANGED <<accounts, ledger, next_account_id, next_transaction_id>>

\* A handler of accounts.py, or one of users.py other than register, on a
\* thread whose session is failed: SessionLocal() returns that session, its
\* first statement raises, nothing catches it and the session stays as it
\* is; 500.
AccountSessionFailed(w) ==
    /\ Failed(w)
    /\ resp' = [resp EXCEPT ![w] = [status |-> 500, body |-> "InvalidRequestError"]]
    /\ Accept(w)
    /\ UNCHANGED <<accounts, ledger, session, next_account_id,
                   next_transaction_id>>

\* create_transaction or get_transactions on a thread whose session is
\* failed: the first query raises an SQLAlchemyError, the except clause
\* rolls back and answers 500, the finally closes the session.
TransactionSessionFailed(w) ==
    /\ Failed(w)
    /\ session' = [session EXCEPT ![w] = NoSession]
    /\ resp' = [resp EXCEPT ![w] = [status |-> 500, body |-> "SQLAlchemyError"]]
    /\ Accept(w)
    /\ UNCHANGED <<accounts, ledger, next_account_id, next_transaction_id>>

\* A request to /accounts arrives at a worker.
ReceiveAccountRequest ==
    /\ TotalRequests < MaxRequests
    /\ \E w \in Workers, u \in Users :
          \/ \E ty \in AccountTypes, n \in AccountNumbers, b \in Balances :
                CreateAccountInsert(w, u, ty, n, b)
          \/ GetAllAccounts(w, u)
          \/ \E id \in AccountIds :
                \/ GetAccount(w, u, id)
                \/ UpdateAccountNotFound(w, u, id)
                \/ \E ty \in AccountTypes \cup {NoType}, hb \in BOOLEAN, b \in Balances :
                      UpdateAccountBegin(w, u, id, ty, hb, b)
                \/ DeleteAccountNotFound(w, u, id)
                \/ DeleteAccountBegin(w, u, id)

\* The session.commit() of a running account handler.
CommitAccountRequest ==
    \E w \in Workers :
        \/ CreateAccountUnique(w)
        \/ CreateAccount(w)
        \/ CreateAccountDuplicate(w)
        \/ UpdateAccount(w)
        \/ UpdateAccountStale(w)
        \/ DeleteAccount(w)
        \/ DeleteAccountReferenced(w)

\* ----------------------------------------------- user handlers (users.py)
\* The table users is not part of the state: the handlers are modelled by
\* what they do to the thread's session and by their answer.

\* The answers of the handlers that reach close_session: login (lines
\* 101-114), get_user_profile, update_profile (183-203), get_all_users and
\* register (44-67).
UserAnswers ==
    {[status |-> 200, body |-> "access_token"],
     [status |-> 401, body |-> "Invalid credentials"],
     [status |-> 200, body |-> "profile"],
     [status |-> 200, body |-> "User profile updated successfully"],
     [status |-> 200, body |-> "users"],
     [status |-> 201, body |-> "User registered successfully"],
     [status |-> 400, body |-> "Error registering user"]}

\* A handler of users.py runs to its close_session.
UserRequest(w, answer) ==
    /\ Usable(w)
    /\ session' = [session EXCEPT ![w] = NoSession]
    /\ resp' = [resp EXCEPT ![w] = answer]
    /\ Accept(w)
    /\ UNCHANGED <<accounts, ledger, next_account_id, next_transaction_id>>

\* register, lines 44-50: a field is missing; 400 before SessionLocal().
RegisterMissingFields(w) ==
    /\ ~Running(w)
    /\ resp' = [resp EXCEPT ![w] = [status |-> 400, body |-> "Missing required fields"]]
    /\ Accept(w)
    /\ UNCHANGED <<accounts, ledger, session, next_account_id,
                   next_transaction_id>>

\* register, lines 56-67, on a thread whose session is failed:
\* session.commit() raises, `except Exception` rolls back and answers 400,
\* the finally closes the session.
RegisterOnFailedSession(w) ==
    /\ Failed(w)
    /\ session' = [session EXCEPT ![w] = NoSession]
    /\ resp' = [resp EXCEPT ![w] = [status |-> 400, body |-> "Error registering user"]]
    /\ Accept(w)
    /\ UNCHANGED <<accounts, ledger, next_account_id, next_transaction_id>>

\* login, lines 101-108, with the e-mail of a user and no password:
\* check_password_hash raises after the SELECT and before close_session;
\* 500, the thread's session stays open inside the transaction the SELECT
\* started.
LoginRaises(w) ==
    /\ Usable(w)
    /\ session' = [session EXCEPT ![w] =
                      LeftOpenSession(ViewAccounts(w), ViewLedger(w))]
    /\ resp' = [resp EXCEPT ![w] = [status |-> 500, body |-> "AttributeError"]]
    /\ Accept(w)
    /\ UNCHANGED <<accounts, ledger, next_account_id, next_transaction_id>>

\* update_profile, lines 183-200, with the e-mail of another user: the
\* unique index refuses the UPDATE, session.commit() raises, close_session
\* is not reached.
UpdateProfileDuplicate(w) ==
    /\ Usable(w)
    /\ AccountRaises(w, "IntegrityError")
    /\ Accept(w)
    /\ UNCHANGED <<accounts, ledger, next_account_id, next_transaction_id>>

\* A request to /auth arrives at a worker.
ReceiveUserRequest ==
    /\ TotalRequests < MaxRequests
    /\ \E w \in Workers :
          \/ \E answer \in UserAnswers : UserRequest(w, answer)
          \/ RegisterMissingFields(w)
          \/ RegisterOnFailedSession(w)
          \/ LoginRaises(w)
          \/ UpdateProfileDuplicate(w)

\* A request arrives at a worker whose session a handler left failed.
ReceiveOnFailedSession ==
    /\ TotalRequests < MaxRequests
    /\ \E w \in Workers :
          \/ AccountSessionFailed(w)
          \/ TransactionSessionFailed(w)

\* ------------------------------------------------------ get_transactions
\* The descriptions a body may carry.
Descriptions == {NoDescription, "memo"}

\* One element of transaction_list, lines 66-77 (created_at left out).
SerializeTransaction(t) ==
    [id |-> t.id, type |-> t.type, amount |-> Float(t.amount),
     description |-> t.description, from_account_id |-> t.from_account_id,
     to_account_id |-> t.to_account_id]

\* The rows of the given positions of the table, in primary key order.
RECURSIVE RowsById(_, _)
RowsById(ldgr, positions) ==
    IF positions = {} THEN << >>
    ELSE LET first == CHOOSE i \in positions :
                          \A j \in positions : ldgr[i].id <= ldgr[j].id
         IN  <<ldgr[first]>> \o RowsById(ldgr, positions \ {first})

\* filter_by(from_account_id=account.id).all(), line 62.
TransactionsFrom(ldgr, account_id) ==
    RowsById(ldgr, {i \in 1..Len(ldgr) : ldgr[i].from_account_id = account_id})

\* The loop of lines 60-63 over the caller's accounts, in primary key order.
RECURSIVE ExtendTransactions(_, _)
ExtendTransactions(ids, ldgr) ==
    IF ids = {} THEN << >>
    ELSE LET account_id == CHOOSE a \in ids : \A o \in ids : a <= o
         IN  TransactionsFrom(ldgr, account_id)
                 \o ExtendTransactions(ids \ {account_id}, ldgr)

\* The body of the 200 response, lines 59-79.
TransactionList(user_id, accts, ldgr) ==
    LET ids == {a \in DOMAIN accts : accts[a].user_id = user_id}
        transactions == ExtendTransactions(ids, ldgr)
    IN  [i \in 1..Len(transactions) |-> SerializeTransaction(transactions[i])]

\* get_transactions, lines 55-85: reads the rows the session's transaction
\* sees, changes none; session closed.
GetTransactions(w, user_id) ==
    /\ Usable(w)
    /\ session' = [session EXCEPT ![w] = NoSession]
    /\ resp' = [resp EXCEPT ![w] =
                    [status |-> 200, body |-> "transactions",
                     transactions |->
                        TransactionList(user_id, ViewAccounts(w), ViewLedger(w))]]
    /\ req' = [req EXCEPT ![w] = [NoRequest EXCEPT !.user_id = user_id,
                                                    !.type = "list"]]
    /\ nreq' = [nreq EXCEPT ![w] = @ + 1]
    /\ UNCHANGED <<accounts, ledger, next_account_id, next_transaction_id>>

\* A create_transaction request whose body carries a description.
ReceiveDescribed ==
    /\ TotalRequests < MaxRequests
    /\ \E w \in Workers :
          \/ BeginAmountRaises(w)
          \/ \E r \in Requests :
                \/ BeginNotANumber(w, r)
                \/ \E d \in Descriptions :
                      \/ BeginUnauthorized(w, [r EXCEPT !.description = d])
                      \/ BeginRejected(w, [r EXCEPT !.description = d])
                      \/ BeginApplied(w, [r EXCEPT !.description = d])

ReceiveList ==
    /\ TotalRequests < MaxRequests
    /\ \E w \in Workers, u \in Users : GetTransactions(w, u)

NextList ==
    \/ ReceiveDescribed
    \/ ReceiveList
    \/ \E w \in Workers : LockRow(w)
    \/ \E w \in Workers : InsertRow(w)
    \/ \E w \in Workers : LockParent(w)
    \/ \E w \in Workers : Commit(w)
    \/ \E w \in Workers : CommitFail(w)
    \/ \E w \in Workers : DeadlockVictim(w)

\* Creating and listing transactions on the same workers and database.
SpecList == Init /\ [][NextList]_vars

\* ------------------------------------------------------ the application
\* app.py lines 19-21: the three blueprints on the same workers and
\* database.
NextAccounts ==
    \/ Next
    \/ ReceiveAccountRequest
    \/ CommitAccountRequest
    \/ ReceiveUserRequest
    \/ ReceiveList
    \/ ReceiveOnFailedSession

SpecAccounts == Init /\ [][NextAccounts]_vars

\* ------------------------------------------- withdrawals after a login
\* The answers of login that reach close_session, lines 108-114.
LoginAnswers ==
    {[status |-> 200, body |-> "access_token"],
     [status |-> 401, body |-> "Invalid credentials"]}

\* The bodies of the withdrawals: positive amounts of two decimals, sent as
\* strings.
Withdrawals ==
    {r \in Requests :
        r.type = "withdrawal" /\ r.amount \in {Cents(c) : c \in 1..MaxAmount}}

\* A login request arrives at a worker.
ReceiveLogin ==
    /\ TotalRequests < MaxLoginRequests
    /\ \E w \in Workers :
          \/ LoginRaises(w)
          \/ \E answer \in LoginAnswers : UserRequest(w, answer)

\* A withdrawal arrives at a worker.
ReceiveWithdrawal ==
    /\ TotalRequests < MaxLoginRequests
    /\ \E w \in Workers :
          \/ BeginAmountRaises(w)
          \/ \E r \in Withdrawals :
                \/ BeginNotANumber(w, r)
                \/ BeginUnauthorized(w, r)
                \/ BeginRejected(w, r)
                \/ BeginApplied(w, r)

NextLogin ==
    \/ ReceiveLogin
    \/ ReceiveWithdrawal
    \/ \E w \in Workers : LockRow(w)
    \/ \E w \in Workers : InsertRow(w)
    \/ \E w \in Workers : LockParent(w)
    \/ \E w \in Workers : Commit(w)
    \/ \E w \in Workers : CommitFail(w)
    \/ \E w \in Workers : DeadlockVictim(w)

\* Logins and withdrawals on the same workers and database, up to
\* MaxLoginRequests requests.
SpecLogin == Init /\ [][NextLogin]_vars

\* ------------------------------------------------- vocabulary of the claims

\* Worker w receives a request in this step.
Received(w) == nreq'[w] = nreq[w] + 1

\* Worker w has handled exactly one request and has answered it.
AnsweredOne(w) == nreq[w] = 1 /\ ~session[w].open

\* The amount the client wrote: a JSON number of two decimals reaches line
\* 130 as the binary expansion of its float, which stands for the decimal
\* of two places next to it; a string is taken as written.
Submitted(amount) ==
    IF amount % Scale \in {1, Scale - 1} THEN Quantize(amount) ELSE amount

\* The amount has no more than two decimals.
TwoDecimals(amount) == Submitted(amount) % Scale = 0

\* The rows of a ledger.
Rows(ldgr) == {ldgr[i] : i \in 1..Len(ldgr)}

Created == [status |-> 201, body |-> "Transaction completed successfully"]

\* The account a request names as its source, for a caller who owns it.
SourceOf(r) == validate_account_owner_by_number(r.user_id, r.from_account_number, accounts)

\* The amount entry e records as taken from account a.
DebitOf(e, a) ==
    IF e.type \in {"withdrawal", "transfer"} /\ e.from_account_id = a
    THEN e.amount ELSE 0

\* The amount entry e records as given to account a.
CreditOf(e, a) ==
    IF \/ e.type = "deposit" /\ e.from_account_id = a
       \/ e.type = "transfer" /\ e.to_account_id = a
    THEN e.amount ELSE 0

RECURSIVE SumDebits(_, _, _)
SumDebits(l, n, a) ==
    IF n = 0 THEN 0 ELSE DebitOf(l[n], a) + SumDebits(l, n - 1, a)

RECURSIVE SumCredits(_, _, _)
SumCredits(l, n, a) ==
    IF n = 0 THEN 0 ELSE CreditOf(l[n], a) + SumCredits(l, n - 1, a)

Debits(a) == SumDebits(ledger, Len(ledger), a)

Credits(a) == SumCredits(ledger, Len(ledger), a)

\* ------------------------------------------------------------------ claims

\* C1: conservation. In every committed state, for every account A,
\* balance(A) + debits(A) - credits(A), with debits and credits summed over
\* the ledger, equals A's initial provisioned balance. (Stated for one
\* request per worker, of positive amounts of two decimals, so that a
\* violation is one of interleaving alone.)
C1_Conservation ==
    ( /\ \A i \in 1..Len(ledger) : ledger[i].amount > 0
      /\ \A w \in Workers : nreq[w] <= 1 /\ TwoDecimals(req[w].amount) )
    => \A a \in DOMAIN accounts :
          accounts[a].balance + Debits(a) - Credits(a) = InitAccounts[a].balance

\* C2: starting from non-negative balances, every committed balance is >= 0
\* after any sequence and interleaving of create_transaction requests, with
\* any amount the handler accepts.
C2_NonNegativeBalance ==
    \A a \in DOMAIN accounts : accounts[a].balance >= 0

\* C3: no lost updates. When every worker has handled one deposit of d > 0
\* on the same account a (N = NumWorkers requests, in any interleaving) and
\* all were answered 201, the committed balance of a is its initial balance
\* plus N * d and the ledger holds exactly N entries. (Stated for amounts
\* of two decimals.)
C3_NoLostUpdates ==
    \A a \in DOMAIN accounts, d \in {x \in Amounts : x > 0 /\ TwoDecimals(x)} :
        (\A w \in Workers :
            /\ AnsweredOne(w)
            /\ resp[w] = Created
            /\ req[w].type = "deposit"
            /\ req[w].amount = d
            /\ SourceOf(req[w]) = a)
        => /\ accounts[a].balance = InitAccounts[a].balance + NumWorkers * Submitted(d)
           /\ Len(ledger) = NumWorkers

\* create_transaction run from start to end with no other request in between,
\* on tables whose AUTO_INCREMENT counter of transactions stands at next_id:
\* the committed tables, the counter and the response it leaves.
RunAlone(accts, ldgr, next_id, r) ==
    LET from_id == validate_account_owner_by_number(
                       r.user_id, r.from_account_number, accts)
        to_id == LookupToAccount(r.to_account_number, accts)
    IN  IF from_id = None
        THEN [accounts |-> accts, ledger |-> ldgr, next_id |-> next_id,
              resp |-> [status |-> 403, body |-> "Unauthorized access to the account"]]
        ELSE IF ~ApplyOk(LoadObjects(from_id, to_id, accts),
                         from_id, to_id, r.amount, r.type)
        THEN [accounts |-> accts, ledger |-> ldgr, next_id |-> next_id,
              resp |-> ApplyError(r.type)]
        ELSE [accounts |->
                  FlushAccounts(accts,
                      ApplyObjects(LoadObjects(from_id, to_id, accts),
                                   from_id, to_id, r.amount, r.type)),
              ledger |->
                  Append(ldgr, NewTransaction(next_id, from_id, to_id,
                                              r.amount, r.type,
                                              r.description)),
              next_id |-> next_id + 1,
              resp |-> Created]

\* The accounts request r loads: its source and its target, where they exist.
Touched(r) ==
    {id \in DOMAIN accounts :
        \/ accounts[id].account_number = r.from_account_number
        \/ r.to_account_number # None
             /\ accounts[id].account_number = r.to_account_number}

\* User u owns an account with number n.
Owns(u, n) ==
    \E id \in DOMAIN accounts :
        accounts[id].account_number = n /\ accounts[id].user_id = u

\* The committed state and both responses are those of running first the
\* request of worker v, then the request of worker w, from the initial tables.
SerialOrder(v, w) ==
    LET s1 == RunAlone(InitAccounts, << >>, 1, req[v])
        s2 == RunAlone(s1.accounts, s1.ledger, s1.next_id, req[w])
    IN  /\ accounts = s2.accounts
        /\ Rows(ledger) = Rows(s2.ledger)
        /\ resp[v] = s1.resp
        /\ resp[w] = s2.resp

\* C4: two concurrent requests that touch overlapping accounts are
\* serialized: once both are answered (committed or rejected), balances,
\* ledger and both responses equal those of running the two requests one
\* after the other in some order. (Stated for positive amounts of two
\* decimals, so that a violation is one of interleaving alone.)
C4_Serialized ==
    \A v \in Workers : \A w \in Workers \ {v} :
        ( /\ AnsweredOne(v) /\ AnsweredOne(w)
          /\ \A o \in Workers \ {v, w} : nreq[o] = 0
          /\ req[v] # NoRequest /\ req[w] # NoRequest
          /\ req[v].amount > 0 /\ req[w].amount > 0
          /\ TwoDecimals(req[v].amount) /\ TwoDecimals(req[w].amount)
          /\ resp[v].status \in {201, 400} /\ resp[w].status \in {201, 400}
          /\ Touched(req[v]) \cap Touched(req[w]) # {} )
        => (SerialOrder(v, w) \/ SerialOrder(w, v))

\* C5: a transfer a -> b and a transfer b -> a of the same amount m, each
\* source holding at least m, run by two workers in any interleaving and
\* both answered 201, leave both balances at their values before the two
\* requests, with exactly two ledger entries.
C5_OppositeTransfersCancel ==
    \A v \in Workers : \A w \in Workers \ {v} :
      \A a \in DOMAIN accounts : \A b \in DOMAIN accounts \ {a},
                                 m \in {x \in Amounts : x > 0 /\ TwoDecimals(x)} :
        ( /\ AnsweredOne(v) /\ AnsweredOne(w)
          /\ \A o \in Workers \ {v, w} : nreq[o] = 0
          /\ resp[v] = Created /\ resp[w] = Created
          /\ req[v].type = "transfer" /\ req[w].type = "transfer"
          /\ req[v].amount = m /\ req[w].amount = m
          /\ req[v].from_account_number = accounts[a].account_number
          /\ req[v].to_account_number = accounts[b].account_number
          /\ req[w].from_account_number = accounts[b].account_number
          /\ req[w].to_account_number = accounts[a].account_number
          /\ InitAccounts[a].balance >= Submitted(m)
          /\ InitAccounts[b].balance >= Submitted(m) )
        => /\ accounts[a].balance = InitAccounts[a].balance
           /\ accounts[b].balance = InitAccounts[b].balance
           /\ Len(ledger) = 2

\* C6: a request never lowers the committed balance of an account its
\* caller does not own: when worker w commits the request of caller U, every
\* account owned by another user has a balance >= its balance before.
C6_NoDebitOfForeignAccount ==
    [][\A w \in Workers :
          (InCommit(w) /\ resp'[w] = Created)
          => \A x \in DOMAIN accounts :
                accounts[x].user_id # req[w].user_id
                => accounts'[x].balance >= accounts[x].balance]_vars

\* C7: all-or-nothing. A step of a request either leaves balances and
\* ledger as they were, or appends exactly one ledger entry; balances change
\* only in a step that appends the entry; a request answered 201 has its
\* changed balances and its entry committed in that one step; a request whose
\* commit fails (500) after its balances were changed in memory leaves
\* balances and ledger as they were.
C7_AllOrNothing ==
    [][/\ accounts' # accounts => Len(ledger') = Len(ledger) + 1
       /\ ledger' # ledger => SubSeq(ledger', 1, Len(ledger)) = ledger
                                /\ Len(ledger') = Len(ledger) + 1
       /\ \A w \in Workers :
             /\ (InCommit(w) /\ resp'[w].status = 500)
                => (accounts' = accounts /\ ledger' = ledger)
             /\ (InCommit(w) /\ resp'[w].status = 201)
                => /\ Len(ledger') = Len(ledger) + 1
                   /\ ledger'[Len(ledger')].id = session[w].id
                   /\ ledger'[Len(ledger')].type = req[w].type
                   /\ \A id \in DOMAIN session[w].objects :
                         session[w].objects[id].balance # session[w].objects[id].loaded
                         => accounts'[id].balance
                                = Quantize(session[w].objects[id].balance)
      ]_vars

\* C7 witness: a commit failed after the request's balance was changed in
\* memory, and nothing of it is in the ledger.
C7_Witness ==
    \E w \in Workers :
        /\ resp[w].status = 500
        /\ req[w].amount # 0
        /\ ledger = << >>

\* C8: a withdrawal by the owner whose amount is strictly greater than the
\* source's current balance is answered 400 "Insufficient funds" and leaves
\* every balance and the ledger unchanged.
C8_OverdraftRejected ==
    [][\A w \in Workers :
          ( /\ Received(w)
            /\ req'[w].type = "withdrawal"
            /\ \E id \in DOMAIN accounts :
                  /\ accounts[id].account_number = req'[w].from_account_number
                  /\ accounts[id].user_id = req'[w].user_id
                  /\ req'[w].amount > accounts[id].balance )
          => /\ resp'[w] = [status |-> 400, body |-> "Insufficient funds"]
             /\ ~session'[w].open
             /\ accounts' = accounts
             /\ ledger' = ledger]_vars

\* C9: a request whose amount is zero or negative is rejected for every
\* operation kind (it is never answered 201), and every ledger entry has
\* amount > 0.
C9_NonPositiveAmountRejected ==
    /\ \A w \in Workers :
          (req[w] # NoRequest /\ req[w].amount <= 0) => resp[w] # Created
    /\ \A i \in 1..Len(ledger) : ledger[i].amount > 0

\* C10: a request whose caller does not own an account with the named
\* source number (the number may or may not exist) is answered 403 whatever
\* its kind, amount and target; no balance changes and no ledger entry is
\* appended. (req holds the request once it is past line 139: a request
\* that is not answered 403 comes from the owner of its source.)
C10_ForeignSourceUnauthorized ==
    [][\A w \in Workers :
          Received(w)
          => /\ ( /\ req'[w].type \in TransactionTypes
                  /\ ~Owns(req'[w].user_id, req'[w].from_account_number) )
                => resp'[w].status = 403
             /\ resp'[w].status = 403
                => /\ ~session'[w].open
                   /\ accounts' = accounts
                   /\ ledger' = ledger]_vars

\* C10 witness: some request has been answered 403.
C10_Witness ==
    \E w \in Workers : resp[w].status = 403 /\ nreq[w] >= 1

\* Some account has number n.
Resolves(n) ==
    n # None /\ \E id \in DOMAIN accounts : accounts[id].account_number = n

\* C11: a transfer by the owner of the source whose target number is missing
\* or resolves to no account is answered 400, whatever the source balance;
\* no balance changes and no ledger entry is appended.
C11_TransferTargetNotFound ==
    [][\A w \in Workers :
          ( /\ Received(w)
            /\ req'[w].type = "transfer"
            /\ Owns(req'[w].user_id, req'[w].from_account_number)
            /\ ~Resolves(req'[w].to_account_number) )
          => /\ resp'[w].status = 400
             /\ ~session'[w].open
             /\ accounts' = accounts
             /\ ledger' = ledger]_vars

\* C11 witness: a transfer with an unresolved target has been answered 400
\* although its source holds the amount.
C11_Witness ==
    \E w \in Workers :
        /\ req[w].type = "transfer"
        /\ ~Resolves(req[w].to_account_number)
        /\ resp[w].status = 400
        /\ req[w].amount > 0
        /\ accounts[SourceOf(req[w])].balance >= req[w].amount

\* C12: a transfer whose target is its own source account is rejected: it
\* is never answered 201 and the ledger holds no transfer from an account to
\* itself. (Stated for positive amounts.)
C12_SelfTransferRejected ==
    /\ \A w \in Workers :
          ( /\ req[w].type = "transfer"
            /\ req[w].amount > 0
            /\ req[w].to_account_number = req[w].from_account_number )
          => resp[w] # Created
    /\ \A i \in 1..Len(ledger) :
          (ledger[i].type = "transfer" /\ ledger[i].amount > 0)
          => ledger[i].from_account_id # ledger[i].to_account_id

\* Worker w commits its request in this step.
Commits(w) == InCommit(w) /\ resp'[w] = Created

\* C18: no partial mutation is visible. The committed tables change only in
\* the one step that commits a request; in that step a transfer between two
\* accounts gets both its source row and its target row written with the
\* balances the request computed, together with its ledger entry; no step
\* writes one side only or a balance without the entry.
C18_NoPartialMutation ==
    [][/\ (accounts' # accounts \/ ledger' # ledger)
            => \E w \in Workers : Commits(w) /\ Len(ledger') = Len(ledger) + 1
       /\ \A w \in Workers :
             ( /\ Commits(w)
               /\ req[w].type = "transfer"
               /\ req[w].amount # 0
               /\ session[w].from_id # session[w].to_id )
             => /\ accounts'[session[w].from_id].balance
                      = Quantize(session[w].objects[session[w].from_id].balance)
                /\ accounts'[session[w].to_id].balance
                      = Quantize(session[w].objects[session[w].to_id].balance)
                /\ ledger'[Len(ledger')].from_account_id = session[w].from_id
                /\ ledger'[Len(ledger')].to_account_id = session[w].to_id
      ]_vars

\* C18 witness: a transfer between two accounts is committed: source
\* debited, target credited and the entry in the ledger.
C18_Witness ==
    \E i \in 1..Len(ledger) :
        /\ ledger[i].type = "transfer"
        /\ ledger[i].amount > 0
        /\ ledger[i].from_account_id # ledger[i].to_account_id
        /\ accounts[ledger[i].from_account_id].balance
              = InitAccounts[ledger[i].from_account_id].balance - ledger[i].amount
        /\ accounts[ledger[i].to_account_id].balance
              = InitAccounts[ledger[i].to_account_id].balance + ledger[i].amount

\* Worker w's request ran in isolation: no commit has changed, since w read
\* them, the rows w loaded.
Isolated(w) ==
    \A id \in DOMAIN session[w].objects :
        session[w].objects[id].loaded = accounts[id].balance

\* The change of account id's balance in this step.
Delta(id) == accounts'[id].balance - accounts[id].balance

\* C20: run in isolation, a committed deposit of m raises the source by
\* exactly m, a committed withdrawal of m lowers it by exactly m, a committed
\* transfer of m between distinct accounts lowers the source by m and raises
\* the target by m; every other account keeps its balance, a target named
\* by a deposit or withdrawal included.
C20_ExactEffect ==
    [][\A w \in Workers :
          (Commits(w) /\ Isolated(w))
          => LET f == session[w].from_id
                 t == session[w].to_id
                 m == Submitted(req[w].amount)
             IN  /\ req[w].type = "deposit"
                      => /\ Delta(f) = m
                         /\ \A x \in DOMAIN accounts \ {f} : Delta(x) = 0
                 /\ req[w].type = "withdrawal"
                      => /\ Delta(f) = 0 - m
                         /\ \A x \in DOMAIN accounts \ {f} : Delta(x) = 0
                 /\ (req[w].type = "transfer" /\ f # t)
                      => /\ Delta(f) = 0 - m
                         /\ Delta(t) = m
                         /\ \A x \in DOMAIN accounts \ {f, t} : Delta(x) = 0
      ]_vars

\* Ledger entry e refers to account id as its source or its target.
RefersTo(e, id) == e.from_account_id = id \/ e.to_account_id = id

\* C13: the ledger is append-only. No step of create_transaction,
\* create_account, update_account or delete_account changes a field of a
\* committed entry or removes one; the committed entries only grow.
C13_LedgerAppendOnly ==
    [][/\ Len(ledger') >= Len(ledger)
       /\ \A i \in 1..Len(ledger) : ledger'[i] = ledger[i]]_vars

\* C14: the committed balance of an existing account changes only in a step
\* that commits a create_transaction request; no other operation,
\* update_account in particular, changes it.
C14_BalanceOnlyByTransaction ==
    [][\A id \in DOMAIN accounts \cap DOMAIN accounts' :
          accounts'[id].balance # accounts[id].balance
          => \E w \in Workers : Commits(w)]_vars

\* C15: an account is deleted only when no ledger entry refers to it and
\* its balance is zero.
C15_DeleteOnlyUnreferencedZero ==
    [][\A id \in DOMAIN accounts :
          id \notin DOMAIN accounts'
          => /\ accounts[id].balance = 0
             /\ \A i \in 1..Len(ledger) : ~RefersTo(ledger[i], id)]_vars

\* C16: every ledger entry has its source or its target reference present,
\* and every withdrawal entry has no target reference. Stated for the
\* entries of positive amount, so that it does not rest on the missing
\* amount check.
C16_LedgerReferences ==
    \A i \in 1..Len(ledger) :
        ledger[i].amount > 0 =>
        /\ ledger[i].from_account_id # None \/ ledger[i].to_account_id # None
        /\ ledger[i].type = "withdrawal" => ledger[i].to_account_id = None

\* v and w run transfers over the same two accounts in opposite directions.
OppositeTransfers(v, w) ==
    /\ InCommit(v) /\ InCommit(w)
    /\ req[v].type = "transfer" /\ req[w].type = "transfer"
    /\ session[v].from_id # session[v].to_id
    /\ session[v].from_id = session[w].to_id
    /\ session[v].to_id = session[w].from_id

\* C17: two concurrent transfers over the same pair of accounts in opposite
\* directions never wait for each other's row lock, the rows being locked in
\* ascending order of identifier, and each of the two requests terminates
\* (its session is closed again).
C17_NoCircularWait ==
    /\ [](\A v \in Workers : \A w \in Workers \ {v} :
            OppositeTransfers(v, w) => ~(WaitsFor(v, w) /\ WaitsFor(w, v)))
    /\ \A v \in Workers : \A w \in Workers \ {v} :
            OppositeTransfers(v, w) ~> (~session[v].open /\ ~session[w].open)

\* The terminal outcomes of create_transaction.
TerminalStatus == {201, 400, 403, 500}

\* C19: every create_transaction invocation reaches a terminal outcome
\* (201, 400, 403 or 500), and a worker that has answered holds no open
\* session any more; the row locks live in the session and go with it.
C19_TerminatesReleased ==
    /\ [](\A w \in Workers :
            resp[w] # NoResponse
            => /\ resp[w].status \in TerminalStatus
               /\ ~session[w].open
               /\ XHeld(w) = {} /\ SHeld(w) = {})
    /\ \A w \in Workers :
            session[w].open ~> (~session[w].open /\ resp[w].status \in {201, 500})

\* Both workers have answered, one with 201 after locking a row and the
\* other with a rejection or an abort, and no session is left open.
C19_Witness ==
    \E v \in Workers : \E w \in Workers \ {v} :
        /\ resp[v].status = 201 /\ Len(ledger) = 1
        /\ resp[w].status \in {400, 403, 500}
        /\ ~session[v].open /\ ~session[w].open

\* Worker w answers a get_transactions request in this step.
Lists(w) == Received(w) /\ resp'[w].status = 200

\* The accounts a committed entry refers to: its source, and its target
\* when it is a transfer.
ReferencedBy(t) ==
    ({t.from_account_id} \cup
        (IF t.type = "transfer" THEN {t.to_account_id} ELSE {})) \ {None}

\* How many elements of list equal x.
Occurrences(list, x) == Cardinality({i \in 1..Len(list) : list[i] = x})

\* C21: round trip. When the owner of an account that the last committed
\* entry refers to (as source, or as target of a transfer) lists their
\* transactions, the list holds that entry exactly once, with the kind,
\* amount, description, source and target it was committed with. Stated
\* for entries of positive amount.
C21_RoundTrip ==
    [][\A w \in Workers :
          (Lists(w) /\ Len(ledger) > 0 /\ ledger[Len(ledger)].amount > 0)
          => \A a \in ReferencedBy(ledger[Len(ledger)]) \cap DOMAIN accounts :
                accounts[a].user_id = req'[w].user_id
                => Occurrences(resp'[w].transactions,
                               SerializeTransaction(ledger[Len(ledger)])) = 1]_vars

\* The step is update_account or delete_account of worker w, called by
\* user_id for account_id.
UpdateOrDelete(w, user_id, account_id) ==
    \/ UpdateAccountNotFound(w, user_id, account_id)
    \/ \E ty \in AccountTypes \cup {NoType}, hb \in BOOLEAN, b \in Balances :
          UpdateAccountBegin(w, user_id, account_id, ty, hb, b)
    \/ DeleteAccountNotFound(w, user_id, account_id)
    \/ DeleteAccountBegin(w, user_id, account_id)
    \/ AccountSessionFailed(w)

\* C22: update_account and delete_account called by a user for an account
\* id that is not an account of that user (another user's, or none) answer
\* 404 and leave every account and every ledger entry unchanged.
C22_ForeignAccountNotFound ==
    [][\A w \in Workers, u \in Users, id \in AccountIds :
          (OwnedAccount(u, id, accounts) = None /\ UpdateOrDelete(w, u, id))
          => /\ resp'[w].status = 404
             /\ accounts' = accounts
             /\ ledger' = ledger]_vars

\* An account-management handler of worker w returns in this step.
AccountHandlerReturns(w) ==
    \/ CreateAccount(w)
    \/ CreateAccountDuplicate(w)
    \/ UpdateAccount(w)
    \/ UpdateAccountStale(w)
    \/ DeleteAccount(w)
    \/ DeleteAccountReferenced(w)
    \/ \E u \in Users, id \in AccountIds :
          UpdateAccountNotFound(w, u, id) \/ DeleteAccountNotFound(w, u, id)

\* C23: every account-management handler leaves the thread's session
\* closed when it returns, also when session.commit() raises, so that no
\* later request of the worker inherits it.
C23_AccountSessionClosed ==
    [][\A w \in Workers :
          AccountHandlerReturns(w) => ~session'[w].open]_vars
====
